---- MODULE Spec2Model ----
(***************************************************************************)
(* Model of src/prediction/predictor_model.py: the Forecaster adapter      *)
(* around the darts RNNModel (fit / predict / save / load) and the         *)
(* train_predictor_model entry point.                                      *)
(*                                                                         *)
(* Tables are sequences of rows; a row keeps its pandas index label (idx). *)
(* Min-max scaled values are exact rationals [n, d].  The RNN library is   *)
(* an external collaborator: its trainer and predictor are deterministic   *)
(* functions of their arguments that may also raise.  Past covariates,     *)
(* which fit prepares but never hands to the trainer, are left out.        *)
(***************************************************************************)
EXTENDS Integers, Sequences, FiniteSets, TLC

\* ------------------------------------------------------------------ bounds
MaxIds == 2
MaxRows == 2
MaxHorizon == 2
MaxHist == 2

\* ------------------------------------------------------------- python values
\* a length of 0 stands for Python's None (history_length is never stored as 0:
\* __init__ keeps it only when truthy, and _prepare_data tests its truthiness)
HistLens == 0..MaxHist
Ids == 1..MaxIds

\* ------------------------------------------------------------------ helpers
RECURSIVE SeqSum(_)
SeqSum(s) == IF s = <<>> THEN 0 ELSE Head(s) + SeqSum(Tail(s))

RECURSIVE Flatten(_)
Flatten(ss) == IF ss = <<>> THEN <<>> ELSE Head(ss) \o Flatten(Tail(ss))

RECURSIVE GCD(_, _)
GCD(a, b) == IF b = 0 THEN a ELSE GCD(b, a % b)

Abs(x) == IF x < 0 THEN -x ELSE x

SetMin(S) == CHOOSE x \in S : \A y \in S : x <= y
SetMax(S) == CHOOSE x \in S : \A y \in S : x >= y

Range(s) == {s[i] : i \in DOMAIN s}

RECURSIVE SortAsc(_)
SortAsc(S) == IF S = {} THEN <<>> ELSE <<SetMin(S)>> \o SortAsc(S \ {SetMin(S)})

\* identifiers in order of first occurrence (what groupby(sort=False) would give)
RECURSIVE FirstSeen(_)
FirstSeen(s) ==
    IF s = <<>> THEN <<>>
    ELSE LET r == FirstSeen(SubSeq(s, 1, Len(s) - 1))
             x == s[Len(s)]
         IN IF x \in Range(r) THEN r ELSE Append(r, x)

Column(rows, c) == [i \in DOMAIN rows |-> rows[i][c]]

\* ------------------------------------------------------------------- pandas
\* list(history.groupby(id_col).groups.keys()): groupby sorts the group keys
GroupKeysFirstSeen(table) == FirstSeen(Column(table, "id"))
GroupKeys(table) == SortAsc(Range(Column(table, "id")))

\* groupby(...).get_group(id_): the rows of one identifier, in table order
HasGroup(table, id) == \E i \in DOMAIN table : table[i].id = id
GetGroup(table, id) == SelectSeq(table, LAMBDA r : r.id = id)

\* s.iloc[-k:] for k > 0 : the last k rows (all of them when k >= len)
ILocLast(s, k) == IF k >= Len(s) THEN s ELSE SubSeq(s, Len(s) - k + 1, Len(s))

\* s.reset_index(inplace=True): labels become 0..n-1
ResetIndex(s) == [i \in DOMAIN s |-> [s[i] EXCEPT !.idx = i - 1]]

\* ------------------------------------------------------------- MinMaxScaler
\* MinMaxScaler().fit: data_min_ and data_range_ (a zero range is handled as 1)
FitScaler(values) ==
    LET lo == SetMin(Range(values))
        hi == SetMax(Range(values))
    IN [min |-> lo, rng |-> IF hi = lo THEN 1 ELSE hi - lo]

Rat(n, d) ==
    LET g == GCD(Abs(n), d) IN [n |-> n \div g, d |-> d \div g]

\* transform: (x - data_min) / data_range
Transform(sc, x) == Rat(x - sc.min, sc.rng)

\* inverse_transform: v * data_range + data_min
InverseTransform(sc, v) == Rat(v.n * sc.rng + sc.min * v.d, v.d)

\* ------------------------------------------------------------ input tables
\* Row p of a table has index label p - 1.  The target of history row p is p * p
\* and its future covariate is the time index p; the test period follows the
\* longest training period.
MkHistory(ids) ==
    [p \in DOMAIN ids |-> [idx |-> p - 1, id |-> ids[p], y |-> p * p, f |-> p]]

HistoryTables ==
    UNION {{MkHistory(ids) : ids \in [1..n -> Ids]} : n \in 1..MaxRows}

MkTest(ids) ==
    [p \in DOMAIN ids |-> [idx |-> p - 1, id |-> ids[p], f |-> MaxRows + p]]

\* each identifier of idlist, rows times in a row
Repeat(idlist, rows) ==
    [p \in 1..(Len(idlist) * rows) |-> idlist[((p - 1) \div rows) + 1]]

\* the identifier lists of the test tables the harness may hold for a history:
\* its identifiers in ascending order, in order of first occurrence, and in
\* ascending order without the largest one
IdLists(table) ==
    {GroupKeys(table), FirstSeen(Column(table, "id")),
     SubSeq(GroupKeys(table), 1, Len(GroupKeys(table)) - 1)} \ {<<>>}

\* a test table lists forecast_length future rows for each of its identifiers
NoTable == [given |-> FALSE, rows |-> <<>>]
TestTables(table, forecast_length) ==
    {[given |-> TRUE, rows |-> MkTest(Repeat(l, forecast_length))] : l \in IdLists(table)}

Schemas == [forecast_length : 1..MaxHorizon, future_covariates : {<<>>, <<"f">>}]

\* ---------------------------------------------------------------- RNNModel
\* RNNModel(...) as constructed: no weights yet
NewModel == [fitted |-> FALSE, weights |-> 0]

\* RNNModel.fit(targets, future_covariates=...): the weights are a function of
\* the training data (np.random.seed makes training repeatable)
RNNFit(targets, future) ==
    [fitted |-> TRUE,
     weights |-> SeqSum([i \in DOMAIN targets |-> Len(targets[i])])
                 + SeqSum([i \in DOMAIN future |-> Len(future[i])])]

\* RNNModel.predict(n, series, future_covariates): one forecast of n steps per
\* series, in the order of series; a function of the weights and the series
RNNPredict(model, n, series) ==
    [i \in DOMAIN series |->
        [j \in 1..n |-> series[i][((Len(series[i]) - 1 + model.weights + j) % Len(series[i])) + 1]]]

\* --------------------------------------------------------------- Forecaster
\* Forecaster.__init__: attrs is the set of attributes fit has assigned so far
NewForecaster(schema, hl) ==
    [is_trained        |-> FALSE,
     data_schema       |-> schema,
     history_length    |-> hl,
     model             |-> NewModel,
     attrs             |-> {},
     all_ids           |-> <<>>,
     scalers           |-> <<>>,
     targets_series    |-> <<>>,
     future_covariates |-> <<>>,
     raw_targets       |-> <<>>]

\* lines 136-137 and 173-175: truncate when the history_length argument is
\* truthy, by self.history_length
Truncate(s, history_length, self_hl) ==
    IF history_length # 0 THEN ILocLast(s, self_hl) ELSE s

\* the per-series frames of the first loop (lines 135-138)
TargetFrame(s, history_length, self_hl) ==
    ResetIndex(Truncate(s, history_length, self_hl))

\* lines 140-149: the scaler of one series and its scaled target series
TargetScaler(frame) == FitScaler(Column(frame, "y"))
TargetSeries(frame) ==
    LET scaler == TargetScaler(frame)
    IN [i \in DOMAIN frame |-> Transform(scaler, frame[i].y)]

\* lines 172-195: the combined future-covariate series of one entity.  Without
\* truncation train_series is the frame the first loop reset in place.
TrainCovRows(s, history_length, self_hl) ==
    IF history_length # 0 THEN Truncate(s, history_length, self_hl) ELSE ResetIndex(s)
TestCovRows(t, history_length, self_hl) == Truncate(t, history_length, self_hl)

CovPoint(r) == [idx |-> r.idx, f |-> r.f]
FutureSeries(s, t, history_length, self_hl) ==
    LET train == TrainCovRows(s, history_length, self_hl)
        test == TestCovRows(t, history_length, self_hl)
        rows == [i \in DOMAIN train |-> CovPoint(train[i])]
                \o [i \in DOMAIN test |-> CovPoint(test[i])]
        sc == FitScaler(Column(rows, "f"))
    IN [i \in DOMAIN rows |-> [index |-> rows[i].idx, f |-> Transform(sc, rows[i].f)]]

\* Forecaster._prepare_data: the status, the instance as the call leaves it, and
\* (when ok) the series handed to the trainer
PrepStatusIgnoreMissing(self, history, schema, history_length, test) ==
    LET all_ids == GroupKeys(history)
    IN IF history_length # 0 /\ self.history_length = 0 THEN "TypeError"
       ELSE IF schema.future_covariates = <<>> \/ ~test.given THEN "ok"
       ELSE IF \E i \in DOMAIN all_ids : ~HasGroup(test.rows, all_ids[i]) THEN "KeyError"
       ELSE "ok"
PrepStatus(self, history, schema, history_length, test) ==
    LET all_ids == GroupKeys(history)
    IN IF history_length # 0 /\ self.history_length = 0 THEN "TypeError"
       ELSE IF schema.future_covariates = <<>> THEN "ok"
       ELSE IF ~test.given THEN "AttributeError"
       ELSE IF \E i \in DOMAIN all_ids : ~HasGroup(test.rows, all_ids[i]) THEN "KeyError"
       ELSE "ok"

PrepareData(self, history, schema, history_length, test) ==
    LET all_ids == GroupKeys(history)
        all_series == [i \in DOMAIN all_ids |-> GetGroup(history, all_ids[i])]
        status == PrepStatus(self, history, schema, history_length, test)
        frames == [i \in DOMAIN all_ids |->
                      TargetFrame(all_series[i], history_length, self.history_length)]
        scalers == [i \in DOMAIN all_ids |-> TargetScaler(frames[i])]
        future == IF schema.future_covariates = <<>> THEN <<>>
                  ELSE [i \in DOMAIN all_ids |->
                           FutureSeries(all_series[i], GetGroup(test.rows, all_ids[i]),
                                        history_length, self.history_length)]
        self133 == [self EXCEPT !.all_ids = all_ids, !.attrs = @ \cup {"all_ids"}]
    IN IF status # "ok"
       THEN [status |-> status, self |-> self133,
             targets |-> <<>>, raw |-> <<>>, future |-> <<>>]
       ELSE [status |-> "ok",
             self |-> [self133 EXCEPT !.scalers = scalers, !.attrs = @ \cup {"scalers"}],
             targets |-> [i \in DOMAIN all_ids |-> TargetSeries(frames[i])],
             raw |-> [i \in DOMAIN all_ids |-> Column(frames[i], "y")],
             future |-> future]

\* Forecaster.fit after _prepare_data returned or raised (prep): the trainer,
\* then the retained state.  trainer_ok is the outcome of RNNModel.fit, which
\* may raise.
FitMarkEarly(prep, schema, trainer_ok) ==
    [result |-> IF prep.status # "ok" THEN prep.status
                ELSE IF trainer_ok THEN "ok" ELSE "TrainerError",
     trainer_invoked |-> prep.status = "ok",
     self |-> [prep.self EXCEPT !.is_trained = TRUE]]
FitResult(prep, schema, trainer_ok) ==
    IF prep.status # "ok"
    THEN [result |-> prep.status, trainer_invoked |-> FALSE, self |-> prep.self]
    ELSE IF ~trainer_ok
    THEN [result |-> "TrainerError", trainer_invoked |-> TRUE, self |-> prep.self]
    ELSE [result |-> "ok", trainer_invoked |-> TRUE,
          self |-> [prep.self EXCEPT
                       !.model = RNNFit(prep.targets, prep.future),
                       !.is_trained = TRUE,
                       !.data_schema = schema,
                       !.targets_series = prep.targets,
                       !.future_covariates = prep.future,
                       !.raw_targets = prep.raw,
                       !.attrs = @ \cup {"targets_series", "future_covariates"}]]

\* Forecaster.predict, lines 257-262: scalers is keyed by the series index
\* (0-based in the code, 1-based here); the per-series values are concatenated
ConcatReversed(self, predictions) ==
    Flatten([i \in DOMAIN predictions |->
                [j \in DOMAIN predictions[Len(predictions) + 1 - i] |->
                    InverseTransform(self.scalers[Len(predictions) + 1 - i],
                                     predictions[Len(predictions) + 1 - i][j])]])
Descale(self, predictions) ==
    Flatten([i \in DOMAIN predictions |->
                [j \in DOMAIN predictions[i] |->
                    InverseTransform(self.scalers[i], predictions[i][j])]])

\* Forecaster.predict: lib_ok is the outcome of RNNModel.predict, which may raise
PredictNoGuard(self, test_data, lib_ok) ==
    LET predictions == RNNPredict(self.model, self.data_schema.forecast_length,
                                  self.targets_series)
        prediction_values == Descale(self, predictions)
    IN IF ~lib_ok THEN [result |-> "PredictorError", out |-> <<>>]
       ELSE IF Len(self.scalers) < Len(predictions)
            THEN [result |-> "KeyError", out |-> <<>>]
       ELSE IF Len(prediction_values) # Len(test_data.rows)
            THEN [result |-> "ValueError", out |-> <<>>]
       ELSE [result |-> "ok",
             out |-> [p \in DOMAIN test_data.rows |->
                         [idx |-> test_data.rows[p].idx, id |-> test_data.rows[p].id,
                          f |-> test_data.rows[p].f,
                          prediction |-> prediction_values[p]]]]
PredictResult(self, test_data, lib_ok) ==
    LET predictions == RNNPredict(self.model, self.data_schema.forecast_length,
                                  self.targets_series)
        prediction_values == Descale(self, predictions)
    IN IF ~self.is_trained THEN [result |-> "NotFittedError", out |-> <<>>]
       ELSE IF ~lib_ok THEN [result |-> "PredictorError", out |-> <<>>]
       ELSE IF Len(self.scalers) < Len(predictions)
            THEN [result |-> "KeyError", out |-> <<>>]
       ELSE IF Len(prediction_values) # Len(test_data.rows)
            THEN [result |-> "ValueError", out |-> <<>>]
       ELSE [result |-> "ok",
             out |-> [p \in DOMAIN test_data.rows |->
                         [idx |-> test_data.rows[p].idx, id |-> test_data.rows[p].id,
                          f |-> test_data.rows[p].f,
                          prediction |-> prediction_values[p]]]]

\* Forecaster.save: the two files of a model directory
NoFiles == [exists |-> FALSE, model |-> NewModel,
            predictor |-> NewForecaster([forecast_length |-> 1, future_covariates |-> <<>>], 0)]
SaveFiles(self) == [exists |-> TRUE, model |-> self.model, predictor |-> self]

\* Forecaster.load: the unpickled forecaster with the restored RNN wired in
LoadDropScalers(files) == [files.predictor EXCEPT !.model = files.model, !.scalers = <<>>]
LoadForecaster(files) == [files.predictor EXCEPT !.model = files.model]

\* ------------------------------------------------------------------- state
VARIABLES
    history,          \* the training table the harness holds
    schema,           \* the ForecastingSchema the harness holds
    hyperparameters,  \* the hyperparameters the harness holds
    test_table,       \* the test table the harness holds
    inst,             \* the Forecaster the harness holds
    disk,             \* the files of the model directory
    saved,            \* history variable: the Forecaster as it was at the last save
    last              \* the last call: its name, arguments, result and output

vars == <<history, schema, hyperparameters, test_table, inst, disk, saved, last>>
world == <<history, schema, hyperparameters, test_table>>

Call(op, result, invoked, hl, given, out) ==
    [op |-> op, result |-> result, trainer_invoked |-> invoked,
     history_length |-> hl, test_given |-> given, out |-> out]

Init ==
    /\ history \in HistoryTables
    /\ schema \in Schemas
    /\ hyperparameters \in [history_length : HistLens]
    /\ test_table \in TestTables(history, schema.forecast_length)
    /\ inst = NewForecaster(schema, hyperparameters.history_length)
    /\ disk = NoFiles
    /\ saved = NoFiles.predictor
    /\ last = Call("init", "ok", FALSE, 0, FALSE, <<>>)

\* the outcomes of the library calls: RNNModel.fit is reached only when
\* _prepare_data returned, RNNModel.predict only on a trained instance
TrainerOutcomes(prep) == IF prep.status = "ok" THEN BOOLEAN ELSE {TRUE}
PredictorOutcomes(self) == IF self.is_trained THEN BOOLEAN ELSE {TRUE}

\* model.fit(history, data_schema, history_length, test_dataframe)
Fit ==
    \E hl \in HistLens, given \in BOOLEAN :
        \E prep \in {PrepareData(inst, history, schema, hl,
                                 IF given THEN test_table ELSE NoTable)} :
        \E trainer_ok \in TrainerOutcomes(prep) :
        \E r \in {FitResult(prep, schema, trainer_ok)} :
           /\ inst' = r.self
           /\ last' = Call("fit", r.result, r.trainer_invoked, hl, given, <<>>)
           /\ UNCHANGED <<world, disk, saved>>

\* train_predictor_model(history, data_schema, hyperparameters, testing_dataframe):
\* a new Forecaster, fitted with its own history_length; returned when fit returns
TrainPredictorModel ==
    \E given \in BOOLEAN :
        \E model \in {NewForecaster(schema, hyperparameters.history_length)} :
        \E prep \in {PrepareData(model, history, schema, model.history_length,
                                 IF given THEN test_table ELSE NoTable)} :
        \E trainer_ok \in TrainerOutcomes(prep) :
        \E r \in {FitResult(prep, schema, trainer_ok)} :
           /\ inst' = IF r.result = "ok" THEN r.self ELSE inst
           /\ last' = Call("train_predictor_model", r.result, r.trainer_invoked,
                           model.history_length, given, <<>>)
           /\ UNCHANGED <<world, disk, saved>>

\* model.predict(test_data, prediction_col_name)
Predict ==
    \E lib_ok \in PredictorOutcomes(inst) :
        \E r \in {PredictResult(inst, test_table, lib_ok)} :
           /\ last' = Call("predict", r.result, FALSE, 0, TRUE, r.out)
           /\ UNCHANGED <<world, inst, disk, saved>>

\* model.save(model_dir_path)
Save ==
    IF ~inst.is_trained
    THEN /\ last' = Call("save", "NotFittedError", FALSE, 0, FALSE, <<>>)
         /\ UNCHANGED <<world, inst, disk, saved>>
    ELSE /\ disk' = SaveFiles(inst)
         /\ saved' = inst
         /\ last' = Call("save", "ok", FALSE, 0, FALSE, <<>>)
         /\ UNCHANGED <<world, inst>>

\* Forecaster.load(model_dir_path)
Load ==
    IF ~disk.exists
    THEN /\ last' = Call("load", "FileNotFoundError", FALSE, 0, FALSE, <<>>)
         /\ UNCHANGED <<world, inst, disk, saved>>
    ELSE /\ inst' = LoadForecaster(disk)
         /\ last' = Call("load", "ok", FALSE, 0, FALSE, <<>>)
         /\ UNCHANGED <<world, disk, saved>>

Next == Fit \/ TrainPredictorModel \/ Predict \/ Save \/ Load

Spec == Init /\ [][Next]_vars

\* ------------------------------------------------------------------ claims
FitOps == {"fit", "train_predictor_model"}
FitReturned == last.op \in FitOps /\ last.result = "ok"
GroupY(id) == Column(GetGroup(history, id), "y")
IsSuffix(a, b) == Len(a) <= Len(b) /\ a = SubSeq(b, Len(b) - Len(a) + 1, Len(b))

\* C1: predict and save on a Forecaster that was never fitted raise the
\* not-fitted error and change nothing, whatever calls (failed fits, other
\* predict and save calls) came before.
C1_NotFittedBeforeFit ==
    [][(~inst.is_trained /\ last'.op \in {"predict", "save"})
          => (last'.result = "NotFittedError" /\ inst' = inst /\ disk' = disk)]_vars

C1_Witness ==
    /\ ~inst.is_trained
    /\ "all_ids" \in inst.attrs
    /\ last.op \in {"predict", "save"}
    /\ last.result = "NotFittedError"

\* C2: on every trained instance predict's de-scaling of series i uses
\* scalers[i], the scaler fitted on the target values of targets_series[i].
C2_ScalerAlignment ==
    inst.is_trained =>
        \A i \in DOMAIN inst.targets_series :
            /\ i \in DOMAIN inst.scalers
            /\ inst.scalers[i] = FitScaler(inst.raw_targets[i])

\* C3 as stated: all_ids lists the identifiers in order of first occurrence in
\* the history table.
C3_FirstSeenOrder ==
    "all_ids" \in inst.attrs => inst.all_ids = FirstSeen(Column(history, "id"))

\* C3 as amended: all_ids lists the distinct identifiers of the history table in
\* ascending order, and after a fit that returned targets and scalers are
\* indexed in that order (entry i is made of rows of identifier all_ids[i]).
C3_SortedOrder ==
    /\ "all_ids" \in inst.attrs =>
          /\ Range(inst.all_ids) = Range(Column(history, "id"))
          /\ \A i, j \in DOMAIN inst.all_ids : i < j => inst.all_ids[i] < inst.all_ids[j]
    /\ FitReturned =>
          /\ Len(inst.targets_series) = Len(inst.all_ids)
          /\ Len(inst.scalers) = Len(inst.all_ids)
          /\ \A i \in DOMAIN inst.all_ids :
                /\ IsSuffix(inst.raw_targets[i], GroupY(inst.all_ids[i]))
                /\ inst.scalers[i] = FitScaler(inst.raw_targets[i])
                /\ Len(inst.targets_series[i]) = Len(inst.raw_targets[i])

C3_Witness ==
    /\ FitReturned
    /\ Len(inst.all_ids) = 2
    /\ history[1].id = 2
    /\ last.op = "fit"

\* C4: a predict call that returns has written N*H values, N the number of
\* fitted series and H the forecast length: row (i-1)*H + j of the test table
\* holds step j of series i, inverse-transformed with scalers[i].
C4_PredictionLayout ==
    (last.op = "predict" /\ last.result = "ok") =>
        LET N == Len(inst.targets_series)
            H == inst.data_schema.forecast_length
            raw == RNNPredict(inst.model, H, inst.targets_series)
        IN /\ Len(last.out) = N * H
           /\ Len(last.out) = Len(test_table.rows)
           /\ \A i \in 1..N : \A j \in 1..H :
                 last.out[(i - 1) * H + j].prediction
                    = InverseTransform(inst.scalers[i], raw[i][j])
           /\ \A p \in DOMAIN last.out :
                 /\ last.out[p].idx = test_table.rows[p].idx
                 /\ last.out[p].id = test_table.rows[p].id

C4_Witness ==
    /\ last.op = "predict"
    /\ last.result = "ok"
    /\ Len(inst.targets_series) = 2
    /\ inst.data_schema.forecast_length = 2
    /\ Len(last.out) = 4
    /\ last.out[1].prediction # last.out[3].prediction

C6_MissingTestTable ==
    [][(last'.op \in FitOps /\ schema.future_covariates # <<>> /\ ~last'.test_given)
          => /\ last'.result \in {"AttributeError", "TypeError"}
             /\ last'.result = "TypeError"
                   => (last'.history_length # 0 /\ inst.history_length = 0)
             /\ ~last'.trainer_invoked
             /\ inst'.is_trained = inst.is_trained]_vars

C6_Witness ==
    /\ last.op = "fit"
    /\ schema.future_covariates # <<>>
    /\ ~last.test_given
    /\ last.result = "AttributeError"
    /\ ~inst.is_trained

\* C7: the trained flag is false at construction, becomes true only by a fit
\* whose trainer call completed or by a load, and never becomes false again.
C7_TrainedLifecycle ==
    /\ ~inst.is_trained
    /\ ~NewForecaster(schema, hyperparameters.history_length).is_trained
    /\ [][/\ inst.is_trained => inst'.is_trained
          /\ (~inst.is_trained /\ inst'.is_trained)
                => \/ last'.op \in FitOps /\ last'.result = "ok" /\ last'.trainer_invoked
                   \/ last'.op = "load" /\ last'.result = "ok"]_vars

C7_Witness ==
    /\ inst.is_trained
    /\ last.op = "fit"
    /\ last.result = "TrainerError"

\* C8: after a fit with cutoff k every target series consists of the most
\* recent min(k, n) rows of its series, and of all n rows without a cutoff.
C8_RecencyWindow ==
    (last.op = "fit" /\ last.result = "ok") =>
        \A i \in DOMAIN inst.all_ids :
            inst.raw_targets[i] =
                IF last.history_length # 0
                THEN ILocLast(GroupY(inst.all_ids[i]), last.history_length)
                ELSE GroupY(inst.all_ids[i])

\* C9: with future covariates declared, a fit that returned has produced one
\* combined series per entity: the rows of its target series followed by all of
\* the entity's test rows.
C9_CovariatesSpanForecast ==
    (FitReturned /\ schema.future_covariates # <<>>) =>
        /\ Len(inst.future_covariates) = Len(inst.all_ids)
        /\ \A i \in DOMAIN inst.all_ids :
              LET test_rows == GetGroup(test_table.rows, inst.all_ids[i])
                  n == Len(inst.raw_targets[i])
              IN /\ Len(inst.future_covariates[i]) = n + Len(test_rows)
                 /\ \A q \in DOMAIN test_rows :
                       inst.future_covariates[i][n + q].index = test_rows[q].idx

\* C10: a fit call that fails leaves the instance as it was before the call.
C10_FailedFitKeepsState ==
    [][(last'.op = "fit" /\ last'.result # "ok") => inst' = inst]_vars

====
